---- MODULE Spec2Model ----
(***************************************************************************)
(* The vector index and retrieval engine of company_policy_chatbot:        *)
(* FAISSManager (vector_store/faiss_manager.py), DocumentRetriever         *)
(* (retrieval/retriever.py) and the request handlers of app.py that drive  *)
(* them.                                                                   *)
(*                                                                         *)
(* Numbers.  Embedding components are float32 in the code.  The model      *)
(* draws embeddings from a pool of integer vectors whose L2 norm is an     *)
(* integer dividing Unit, so that a unit vector is represented exactly by  *)
(* its components multiplied by Unit, a squared distance by an integer in  *)
(* units of 1/Unit^2, and a score 1/(1+d) by the fraction                  *)
(* Unit^2 / (Unit^2 + d).  Rounding of float32 is not modelled.            *)
(***************************************************************************)
EXTENDS Integers, Sequences, FiniteSets, TLC

VARIABLES
    index,          \* self.index: NoIndex (None) or the faiss.IndexFlatL2 [d, vecs]
    metadata,       \* self.metadata: list of metadata records
    indexFile,      \* <index_path>.index on disk: Absent or the written blob
    metadataFile,   \* <index_path>.metadata on disk: Absent or the pickled list
    last,           \* the most recent completed call on the manager and its outcome
    cycle,          \* history: progress through save_index (1), reset_index (2),
                    \*          load_index (3); or a failing save_index after the
                    \*          reset (4) and load_index after that (5)
    beforeSave,     \* history: in-memory state when that save_index was called
    cache,          \* EmbeddingGenerator.cache: the set of <<text, embedding>> entries
    pc,             \* per request: where its handler stands
    req,            \* per request: the handler's local variables
    running,        \* the request whose handler holds the event loop, 0 for none
    overlap,        \* history: the requests in flight were in flight together
    drift,          \* the version of the provider's model: its answers change with it
    served,         \* the most recent generate_embedding call made outside a request
    splitter,       \* a DocumentSplitter: self.chunk_size, self.chunk_overlap
    split           \* a _split_text call on it: text, start, chunks, where it stands

mgrVars == <<index, metadata, indexFile, metadataFile>>
callVars == <<last, cycle, beforeSave>>
genVars == <<drift, served>>
splitVars == <<splitter, split>>
appVars == <<cache, pc, req, running, overlap, drift, served, splitter, split>>
vars == <<index, metadata, indexFile, metadataFile, last, cycle, beforeSave,
          cache, pc, req, running, overlap, drift, served, splitter, split>>

----------------------------------------------------------------------------
(* Bounds of the model *)

MaxLen == 2         \* no call grows the index or the metadata list beyond this
MaxBatch == 2       \* longest embeddings / metadata list passed to add_documents
MaxK == 2           \* largest k passed to search
ExtraTexts == 2     \* distinct texts passed to generate_embedding beyond the cache limit
MaxText == 3        \* longest text passed to _split_text
MaxSize == 3        \* largest chunk_size and chunk_overlap passed to DocumentSplitter

----------------------------------------------------------------------------
(* Values *)

\* self.index is None
NoIndex == [some |-> FALSE, d |-> 0, vecs |-> <<>>]

\* os.path.exists(...) is false for the artifact
AbsentIndexFile == [present |-> FALSE, d |-> 0, ntotal |-> 0, codes |-> <<>>]
AbsentMetadataFile == [present |-> FALSE, bytes |-> <<>>]

Unit == 5

TOP_K_RESULTS == 2
CacheLimit == 100
CHUNK_SIZE == 1000
CHUNK_OVERLAP == 200
ThresholdNum == 7
ThresholdDen == 10

\* The chunks a caller can index; the metadata record of a chunk is built from it
\* (app.py: {'source': chunk['source'], 'content': chunk['content'], ...}).
Chunks == {"a", "b"}

Meta(c) == [source |-> c, content |-> c]

\* The embedding the provider returns for a chunk's text: one vector per text, all of
\* one dimension.
Emb(c) == CASE c = "a" -> <<2, 0>>
            [] c = "b" -> <<3, 4>>

\* A vector of another dimension (an embedding made with another model).
Short == <<2>>

\* The texts a user asks and the embedding the provider returns for each.
QueryTexts == {"x", "y"}

QueryEmb(t) == CASE t = "x" -> <<3, 0>>
                 [] t = "y" -> <<4, 3>>

\* Query vectors passed to search: the embeddings of the texts, and one of another
\* dimension.
Queries == {QueryEmb(t) : t \in QueryTexts} \cup {<<1>>}

Reqs == {1, 2}

SeqsUpTo(S, n) == UNION {[1..m -> S] : m \in 0..n}

MetaOf(cs) == [i \in 1..Len(cs) |-> Meta(cs[i])]

----------------------------------------------------------------------------
(* numpy / faiss primitives *)

SumSq(v) == LET S[i \in 0..Len(v)] == IF i = 0 THEN 0 ELSE S[i-1] + v[i] * v[i]
            IN S[Len(v)]

\* integer square root
Isqrt(n) == CHOOSE r \in 0..n : r * r <= n /\ (r + 1) * (r + 1) > n

\* faiss.normalize_L2 on one row: divide by the L2 norm; a zero row is left alone.
\* The result is in units of 1/Unit.
NormalizeL2(v) == LET n == Isqrt(SumSq(v))
                  IN IF n = 0 THEN [i \in 1..Len(v) |-> 0]
                     ELSE [i \in 1..Len(v) |-> (v[i] * Unit) \div n]

\* np.array(embeddings).astype('float32') raises for a list of rows of unequal
\* length
Ragged(embeddings) == \E i, j \in 1..Len(embeddings) : Len(embeddings[i]) # Len(embeddings[j])

\* squared L2 distance of two normalized vectors of equal dimension, in 1/Unit^2
DistSq(u, v) == LET S[i \in 0..Len(u)] ==
                        IF i = 0 THEN 0 ELSE S[i-1] + (u[i] - v[i]) * (u[i] - v[i])
                IN S[Len(u)]

\* the distance faiss reports for a slot it has no vector for (the largest float32),
\* in the model any distance above those between unit vectors
FltMax == 4 * Unit * Unit + 1

\* faiss.IndexFlatL2(d)
EmptyIndex(d) == [some |-> TRUE, d |-> d, vecs |-> <<>>]

----------------------------------------------------------------------------
(* Outcomes: every failure is a CustomException; its message tells which *)

Ok == "ok"
NotInitialized == "FAISS index is not initialized"
CreateFailed == "Failed to create FAISS index"
AddFailed == "Failed to add embeddings to FAISS index"
SearchFailed == "FAISS search failed"
LoadFailed == "Failed to load index"

----------------------------------------------------------------------------
(* FAISSManager.create_index *)

\* The value of self.index when create_index returns or raises, and the outcome.
\*   dimension = len(embeddings[0])          raises on an empty list
\*   self.index = faiss.IndexFlatL2(dimension)
\*   np.array(embeddings).astype('float32')  raises on rows of unequal length
\*   faiss.normalize_L2; self.index.add
CreateIndex(ix, embeddings) ==
    IF Len(embeddings) = 0
    THEN [err |-> CreateFailed, index |-> ix]
    ELSE IF Ragged(embeddings)
    THEN [err |-> CreateFailed, index |-> EmptyIndex(Len(embeddings[1]))]
    ELSE [err |-> Ok,
          index |-> [some |-> TRUE, d |-> Len(embeddings[1]),
                     vecs |-> [i \in 1..Len(embeddings) |-> NormalizeL2(embeddings[i])]]]

(* FAISSManager.add_documents, the branch for self.index is not None *)
\*   np.array(embeddings).astype('float32')  raises on rows of unequal length
\*   faiss.normalize_L2(embeddings_np)       raises on an empty list (no second axis)
\*   self.index.add(embeddings_np)           asserts d == self.index.d
IndexAdd(ix, embeddings) ==
    IF Len(embeddings) = 0 \/ Ragged(embeddings) \/ Len(embeddings[1]) # ix.d
    THEN [err |-> AddFailed, index |-> ix]
    ELSE [err |-> Ok,
          index |-> [some |-> TRUE, d |-> ix.d,
                     vecs |-> ix.vecs \o [i \in 1..Len(embeddings) |-> NormalizeL2(embeddings[i])]]]

\* an assignment where the code extends
ExtendReplacing(md, more) == more

\* self.metadata.extend(metadata)
Extend(md, more) == md \o more

\* add_documents as a whole: the new self.index, the new self.metadata, the outcome.
\* The extend is reached only when the index step did not raise.
AddDocumentsResult(ix, md, embeddings, more) ==
    LET r == IF ~ix.some THEN CreateIndex(ix, embeddings) ELSE IndexAdd(ix, embeddings)
    IN [err |-> r.err,
        index |-> r.index,
        metadata |-> IF r.err = Ok THEN Extend(md, more) ELSE md]

----------------------------------------------------------------------------
(* FAISSManager.search *)

\* IndexFlatL2.search: the k nearest stored vectors by squared L2 distance, nearest
\* first, equal distances by position; label -1 fills the slots past ntotal.
\* Labels are 0-based as in the code.
Rank(ix, q, i) == Cardinality({j \in 1..Len(ix.vecs) :
                      \/ DistSq(q, ix.vecs[j]) < DistSq(q, ix.vecs[i])
                      \/ DistSq(q, ix.vecs[j]) = DistSq(q, ix.vecs[i]) /\ j < i})

\* one row of (scores, indices): the distance and the label of each of the k slots
Hits(ix, q, k) ==
    [s \in 1..k |->
        IF s <= Len(ix.vecs)
        THEN LET i == CHOOSE j \in 1..Len(ix.vecs) : Rank(ix, q, j) = s - 1
             IN [idx |-> i - 1, dist |-> DistSq(q, ix.vecs[i])]
        ELSE [idx |-> -1, dist |-> FltMax]]

\* similarity_score = 1.0 / (1.0 + score), as a fraction
Score(dist) == [num |-> Unit * Unit, den |-> Unit * Unit + dist]

\* the loop without the test idx >= 0: a negative label indexes the list from its
\* end
RECURSIVE CollectUnsigned(_, _, _)
CollectUnsigned(md, hits, s) ==
    IF s > Len(hits) THEN <<>>
    ELSE LET idx == hits[s].idx
         IN (IF idx < Len(md) /\ Len(md) + idx >= 0
             THEN <<[metadata |-> md[IF idx < 0 THEN Len(md) + idx + 1 ELSE idx + 1],
                     score |-> Score(hits[s].dist)]>>
             ELSE <<>>) \o CollectUnsigned(md, hits, s + 1)

\* the loop over zip(scores[0], indices[0]): keep a label that has a metadata record
RECURSIVE Collect(_, _, _)
Collect(md, hits, s) ==
    IF s > Len(hits) THEN <<>>
    ELSE LET idx == hits[s].idx
         IN (IF idx < Len(md) /\ idx >= 0
             THEN <<[metadata |-> md[idx + 1], score |-> Score(hits[s].dist)]>>
             ELSE <<>>) \o Collect(md, hits, s + 1)

\* the first half of search: the None check, k = k or Config.TOP_K_RESULTS (k = 0
\* stands for a call that passes no k), normalize the query, self.index.search
SearchIndex(ix, query, k) ==
    IF ~ix.some
    THEN [err |-> NotInitialized, hits |-> <<>>]
    ELSE IF Len(query) # ix.d
    THEN [err |-> SearchFailed, hits |-> <<>>]
    ELSE [err |-> Ok,
          hits |-> Hits(ix, NormalizeL2(query), IF k = 0 THEN TOP_K_RESULTS ELSE k)]

\* search as a whole: the outcome and the list of results
SearchResult(ix, md, query, k) ==
    LET r == SearchIndex(ix, query, k)
    IN [err |-> r.err, results |-> Collect(md, r.hits, 1)]

----------------------------------------------------------------------------
(* Durable artifacts *)

\* faiss.write_index of an IndexFlatL2: dimension, count, the raw components in
\* insertion order.
RECURSIVE Flatten(_)
Flatten(vecs) == IF Len(vecs) = 0 THEN <<>> ELSE Head(vecs) \o Flatten(Tail(vecs))

WriteIndex(ix) == [present |-> TRUE, d |-> ix.d, ntotal |-> Len(ix.vecs), codes |-> Flatten(ix.vecs)]

\* a reader that stops one vector early
ReadIndexOneShort(blob) ==
    [some |-> TRUE, d |-> blob.d,
     vecs |-> [i \in 1..(blob.ntotal - 1) |->
                  SubSeq(blob.codes, (i - 1) * blob.d + 1, i * blob.d)]]

\* faiss.read_index
ReadIndex(blob) ==
    [some |-> TRUE, d |-> blob.d,
     vecs |-> [i \in 1..blob.ntotal |->
                  SubSeq(blob.codes, (i - 1) * blob.d + 1, i * blob.d)]]

\* pickle.dump / pickle.load of the metadata list: one tuple of field values per record
Pickle(md) == [present |-> TRUE,
               bytes |-> [i \in 1..Len(md) |-> <<md[i].source, md[i].content>>]]
Unpickle(file) == [i \in 1..Len(file.bytes) |->
                      [source |-> file.bytes[i][1], content |-> file.bytes[i][2]]]

----------------------------------------------------------------------------
(* The calls a client makes on one FAISSManager, one at a time *)

\* What a caller passes to add_documents, for a sequence cs of chunks.
Prefix(s, n) == SubSeq(s, 1, n)

\* the embeddings of cs; when `bad`, the last row has another dimension
Rows(cs, bad) == [i \in 1..Len(cs) |-> IF bad /\ i = Len(cs) THEN Short ELSE Emb(cs[i])]

\* A well-formed caller passes the embeddings and the metadata of the same chunks.
WellFormed == {[embeddings |-> Rows(cs, FALSE), metadata |-> MetaOf(cs)] :
                  cs \in SeqsUpTo(Chunks, MaxBatch)}

\* One list is one element shorter than the other.
ArityMismatched ==
    {[embeddings |-> Rows(Prefix(cs, Len(cs) - 1), FALSE), metadata |-> MetaOf(cs)] :
        cs \in SeqsUpTo(Chunks, MaxBatch) \ {<<>>}}
    \cup
    {[embeddings |-> Rows(cs, FALSE), metadata |-> MetaOf(Prefix(cs, Len(cs) - 1))] :
        cs \in SeqsUpTo(Chunks, MaxBatch) \ {<<>>}}

\* The last row has another dimension than the provider's: alone it is a batch of
\* that dimension, after other rows it makes the batch ragged.
DimensionMismatched == {[embeddings |-> Rows(cs, TRUE), metadata |-> MetaOf(cs)] :
                           cs \in SeqsUpTo(Chunks, MaxBatch) \ {<<>>}}

Batches == WellFormed \cup ArityMismatched \cup DimensionMismatched

Call(op, err) == [op |-> op, err |-> err]

NoSnapshot == [index |-> NoIndex, metadata |-> <<>>]

\* provider: how the request's call of the embedding provider ended ("none": not
\* called); calls: how many times the request called it
NoReq == [kind |-> "none", cs |-> <<>>, text |-> "", embedding |-> <<>>,
          labels |-> <<>>, results |-> <<>>, err |-> Ok,
          provider |-> "none", calls |-> 0]

NoServed == [text |-> 0, embedding |-> <<>>, invoked |-> FALSE, err |-> Ok]

NoSplitter == [made |-> FALSE, chunk_size |-> 0, chunk_overlap |-> 0]
NoSplit == [pc |-> "idle", text |-> <<>>, start |-> 0, chunks |-> <<>>]

Init ==
    /\ index = NoIndex
    /\ metadata = <<>>
    /\ indexFile = AbsentIndexFile
    /\ metadataFile = AbsentMetadataFile
    /\ last = Call("init", Ok)
    /\ cycle = 0
    /\ beforeSave = NoSnapshot
    /\ cache = {}
    /\ pc = [r \in Reqs |-> "idle"]
    /\ req = [r \in Reqs |-> NoReq]
    /\ running = 0
    /\ overlap = FALSE
    /\ drift = 0
    /\ served = NoServed
    /\ splitter = NoSplitter
    /\ split = NoSplit

\* add_documents(b.embeddings, b.metadata)
AddDocumentsWith(b) ==
    LET r == AddDocumentsResult(index, metadata, b.embeddings, b.metadata)
    IN /\ Len(r.index.vecs) <= MaxLen
       /\ Len(r.metadata) <= MaxLen
       /\ index' = r.index
       /\ metadata' = r.metadata
       /\ last' = Call("add_documents", r.err)
       /\ cycle' = 0
       /\ beforeSave' = NoSnapshot
       /\ UNCHANGED <<indexFile, metadataFile>>
       /\ UNCHANGED appVars

AddDocuments == \E b \in Batches : AddDocumentsWith(b)

\* search(q, k)
SearchWith(q, k) ==
    LET r == SearchResult(index, metadata, q, k)
    IN /\ last' = Call("search", r.err)
       /\ cycle' = 0
       /\ beforeSave' = NoSnapshot
       /\ UNCHANGED <<index, metadata, indexFile, metadataFile>>
       /\ UNCHANGED appVars

Search == \E q \in Queries, k \in 0..MaxK : SearchWith(q, k)

\* a save_index without the check for None, writing an empty index for None
SaveIndexUnchecked ==
    /\ indexFile' = WriteIndex(index)
    /\ metadataFile' = Pickle(metadata)
    /\ last' = Call("save_index", Ok)
    /\ cycle' = 1
    /\ beforeSave' = [index |-> index, metadata |-> metadata]
    /\ UNCHANGED <<index, metadata>>
    /\ UNCHANGED appVars

\* save_index: faiss.write_index, then pickle.dump
SaveIndex ==
    /\ IF ~index.some
       THEN /\ last' = Call("save_index", NotInitialized)
            /\ cycle' = IF cycle = 2 THEN 4 ELSE 0
            /\ beforeSave' = IF cycle = 2 THEN beforeSave ELSE NoSnapshot
            /\ UNCHANGED <<index, metadata, indexFile, metadataFile>>
       ELSE /\ indexFile' = WriteIndex(index)
            /\ metadataFile' = Pickle(metadata)
            /\ last' = Call("save_index", Ok)
            /\ cycle' = 1
            /\ beforeSave' = [index |-> index, metadata |-> metadata]
            /\ UNCHANGED <<index, metadata>>
    /\ UNCHANGED appVars

\* load_index: return when an artifact is missing, else faiss.read_index, then
\* pickle.load
LoadIndex ==
    /\ IF ~indexFile.present \/ ~metadataFile.present
       THEN /\ last' = Call("load_index", Ok)
            /\ cycle' = 0
            /\ beforeSave' = NoSnapshot
            /\ UNCHANGED <<index, metadata, indexFile, metadataFile>>
       ELSE /\ index' = ReadIndex(indexFile)
            /\ metadata' = Unpickle(metadataFile)
            /\ last' = Call("load_index", Ok)
            /\ cycle' = IF cycle = 2 THEN 3 ELSE IF cycle = 4 THEN 5 ELSE 0
            /\ beforeSave' = IF cycle \in {2, 4} THEN beforeSave ELSE NoSnapshot
            /\ UNCHANGED <<indexFile, metadataFile>>
    /\ UNCHANGED appVars

\* a reset that forgets the metadata list
ResetIndexKeepsMetadata ==
    /\ index' = NoIndex
    /\ metadata' = metadata
    /\ last' = Call("reset_index", Ok)
    /\ cycle' = IF cycle = 1 THEN 2 ELSE 0
    /\ beforeSave' = IF cycle = 1 THEN beforeSave ELSE NoSnapshot
    /\ UNCHANGED <<indexFile, metadataFile>>
    /\ UNCHANGED appVars

\* a reset that installs an empty index of the same dimension
ResetIndexToEmpty ==
    /\ index' = EmptyIndex(index.d)
    /\ metadata' = <<>>
    /\ last' = Call("reset_index", Ok)
    /\ cycle' = IF cycle = 1 THEN 2 ELSE 0
    /\ beforeSave' = IF cycle = 1 THEN beforeSave ELSE NoSnapshot
    /\ UNCHANGED <<indexFile, metadataFile>>
    /\ UNCHANGED appVars

\* reset_index: self.index = None; self.metadata = []
ResetIndex ==
    /\ index' = NoIndex
    /\ metadata' = <<>>
    /\ last' = Call("reset_index", Ok)
    /\ cycle' = IF cycle = 1 THEN 2 ELSE 0
    /\ beforeSave' = IF cycle = 1 THEN beforeSave ELSE NoSnapshot
    /\ UNCHANGED <<indexFile, metadataFile>>
    /\ UNCHANGED appVars

Next ==
    \/ AddDocuments
    \/ Search
    \/ SaveIndex
    \/ LoadIndex
    \/ ResetIndex

Spec == Init /\ [][Next]_vars

----------------------------------------------------------------------------
(* The same client, on a disk whose reads can fail *)

\* load_index with both artifacts present and one of its two reads raising: the
\* statements before the read have run, the except clause turns the error into
\* "Failed to load index".
\*   self.index = faiss.read_index(index_file)
\*   self.metadata = pickle.load(f)
LoadIndexInterrupted ==
    /\ indexFile.present /\ metadataFile.present
    /\ \E at \in {"read_index", "pickle.load"} :
          IF at = "read_index"
          THEN UNCHANGED <<index, metadata>>
          ELSE index' = ReadIndex(indexFile) /\ UNCHANGED metadata
    /\ last' = Call("load_index", LoadFailed)
    /\ cycle' = 0
    /\ beforeSave' = NoSnapshot
    /\ UNCHANGED <<indexFile, metadataFile>>
    /\ UNCHANGED appVars

NextFaults ==
    \/ Next
    \/ LoadIndexInterrupted

SpecFaults == Init /\ [][NextFaults]_vars

----------------------------------------------------------------------------
(* app.py: the request handlers, run by one event loop *)

EmbeddingFailed == "Failed to generate embeddings"

\* handlers that run in a thread pool (a handler declared with def)
RunsInThreadPool(handler) == TRUE

\* Can another handler run between two steps of this one?  upload_files and
\* chat_message are declared async def and contain no await: each runs on the event
\* loop from its first statement to its return.
Preemptible(handler) == FALSE

Others(r) == Reqs \ {r}
InFlight(r) == pc[r] \notin {"idle", "done"}
MayRun(r) == running \in {0, r}

\* who holds the event loop after a step of request r
Holder(r, finished) == IF finished \/ Preemptible(req[r].kind) THEN 0 ELSE r

Max(a, b) == IF a >= b THEN a ELSE b

\* rows accepted for indexing and not yet in self.index
RECURSIVE Waiting(_)
Waiting(rs) ==
    IF rs = {} THEN 0
    ELSE LET r == CHOOSE x \in rs : TRUE
         IN (IF pc[r] \in {"generate_embeddings", "add_index"} THEN Len(req[r].cs) ELSE 0)
            + Waiting(rs \ {r})

Finish(r, err) ==
    /\ pc' = [pc EXCEPT ![r] = "done"]
    /\ req' = [req EXCEPT ![r].err = err]
    /\ running' = Holder(r, TRUE)

Step(r, to) ==
    /\ pc' = [pc EXCEPT ![r] = to]
    /\ running' = Holder(r, FALSE)

\* POST /upload arrives: the files hold the chunks cs
PostUpload(r) ==
    /\ pc[r] = "idle"
    /\ \E cs \in SeqsUpTo(Chunks, MaxBatch) \ {<<>>} :
          /\ Max(Len(index.vecs), Len(metadata)) + Waiting(Reqs) + Len(cs) <= MaxLen
          /\ req' = [req EXCEPT ![r] = [NoReq EXCEPT !.kind = "upload_files", !.cs = cs]]
    /\ pc' = [pc EXCEPT ![r] = "generate_embeddings"]
    /\ overlap' = \E s \in Others(r) : InFlight(s)
    /\ UNCHANGED <<mgrVars, callVars, genVars, splitVars, cache, running>>

\* embeddings = embedding_generator.generate_embeddings(texts): the provider answers
\* with one vector per text, or raises
UploadEmbed(r) ==
    /\ pc[r] = "generate_embeddings" /\ MayRun(r)
    /\ \E ok \in BOOLEAN :
          IF ok
          THEN /\ req' = [req EXCEPT ![r].embedding = Rows(req[r].cs, FALSE),
                                     ![r].provider = "ok",
                                     ![r].calls = req[r].calls + 1]
               /\ Step(r, "add_index")
          ELSE /\ req' = [req EXCEPT ![r].err = EmbeddingFailed,
                                     ![r].provider = "failed",
                                     ![r].calls = req[r].calls + 1]
               /\ pc' = [pc EXCEPT ![r] = "done"]
               /\ running' = Holder(r, TRUE)
    /\ UNCHANGED <<mgrVars, callVars, genVars, splitVars, cache, overlap>>

\* faiss_manager.add_documents, up to and including self.index.add
UploadAddIndex(r) ==
    /\ pc[r] = "add_index" /\ MayRun(r)
    /\ LET res == IF ~index.some THEN CreateIndex(index, req[r].embedding)
                  ELSE IndexAdd(index, req[r].embedding)
       IN /\ index' = res.index
          /\ IF res.err = Ok THEN Step(r, "extend") /\ UNCHANGED req
             ELSE Finish(r, res.err)
    /\ UNCHANGED <<metadata, indexFile, metadataFile, callVars, genVars, splitVars, cache, overlap>>

\* faiss_manager.add_documents: self.metadata.extend(metadata)
UploadExtend(r) ==
    /\ pc[r] = "extend" /\ MayRun(r)
    /\ metadata' = Extend(metadata, MetaOf(req[r].cs))
    /\ Step(r, "save_index")
    /\ UNCHANGED <<index, indexFile, metadataFile, callVars, genVars, splitVars, cache, req, overlap>>

\* faiss_manager.save_index(), then the response
UploadSave(r) ==
    /\ pc[r] = "save_index" /\ MayRun(r)
    /\ IF ~index.some
       THEN UNCHANGED <<indexFile, metadataFile>> /\ Finish(r, NotInitialized)
       ELSE /\ indexFile' = WriteIndex(index)
            /\ metadataFile' = Pickle(metadata)
            /\ Finish(r, Ok)
    /\ UNCHANGED <<index, metadata, callVars, genVars, splitVars, cache, overlap>>

\* POST /chat arrives with the message text
PostChat(r) ==
    /\ pc[r] = "idle"
    /\ \E t \in QueryTexts :
          req' = [req EXCEPT ![r] = [NoReq EXCEPT !.kind = "chat_message", !.text = t]]
    /\ pc' = [pc EXCEPT ![r] = "generate_embedding"]
    /\ overlap' = \E s \in Others(r) : InFlight(s)
    /\ UNCHANGED <<mgrVars, callVars, genVars, splitVars, cache, running>>

\* a retrieve_documents that answers a provider failure with a zero embedding
ChatEmbedDefaulting(r) ==
    /\ pc[r] = "generate_embedding" /\ MayRun(r)
    /\ \E ok \in BOOLEAN :
          /\ req' = [req EXCEPT ![r].embedding = IF ok THEN QueryEmb(req[r].text)
                                                 ELSE <<0, 0>>,
                                ![r].provider = IF ok THEN "ok" ELSE "failed",
                                ![r].calls = req[r].calls + 1]
          /\ Step(r, "search_index")
    /\ UNCHANGED <<mgrVars, callVars, genVars, splitVars, cache, overlap>>

\* retrieve_documents: query_embedding = generate_embedding(query): the cached
\* vector, or the provider's, cached while the cache holds fewer than 100 entries;
\* a provider failure leaves generate_embedding and retrieve_documents as an error
ChatEmbed(r) ==
    /\ pc[r] = "generate_embedding" /\ MayRun(r)
    /\ IF \E e \in cache : e[1] = req[r].text
       THEN /\ req' = [req EXCEPT ![r].embedding =
                          (CHOOSE e \in cache : e[1] = req[r].text)[2]]
            /\ Step(r, "search_index")
            /\ UNCHANGED cache
       ELSE \E ok \in BOOLEAN :
               IF ok
               THEN /\ req' = [req EXCEPT ![r].embedding = QueryEmb(req[r].text),
                                          ![r].provider = "ok",
                                          ![r].calls = req[r].calls + 1]
                    /\ cache' = IF Cardinality(cache) < CacheLimit
                                THEN cache \cup {<<req[r].text, QueryEmb(req[r].text)>>}
                                ELSE cache
                    /\ Step(r, "search_index")
               ELSE /\ req' = [req EXCEPT ![r].err = EmbeddingFailed,
                                          ![r].provider = "failed",
                                          ![r].calls = req[r].calls + 1]
                    /\ pc' = [pc EXCEPT ![r] = "done"]
                    /\ running' = Holder(r, TRUE)
                    /\ UNCHANGED cache
    /\ UNCHANGED <<mgrVars, callVars, genVars, splitVars, overlap>>

\* retrieve_documents: faiss_manager.search(query_embedding), up to and including
\* self.index.search
ChatSearchIndex(r) ==
    /\ pc[r] = "search_index" /\ MayRun(r)
    /\ LET res == SearchIndex(index, req[r].embedding, 0)
       IN IF res.err = Ok
          THEN /\ req' = [req EXCEPT ![r].labels = res.hits]
               /\ Step(r, "search_metadata")
          ELSE Finish(r, res.err)
    /\ UNCHANGED <<mgrVars, callVars, genVars, splitVars, cache, overlap>>

\* faiss_manager.search: the loop that reads self.metadata; retrieve_documents
\* returns vector_results as search made them
ChatSearchMetadata(r) ==
    /\ pc[r] = "search_metadata" /\ MayRun(r)
    /\ pc' = [pc EXCEPT ![r] = "done"]
    /\ req' = [req EXCEPT ![r].results = Collect(metadata, req[r].labels, 1)]
    /\ running' = Holder(r, TRUE)
    /\ UNCHANGED <<mgrVars, callVars, genVars, splitVars, cache, overlap>>

\* the response is sent
Respond(r) ==
    /\ pc[r] = "done"
    /\ pc' = [pc EXCEPT ![r] = "idle"]
    /\ req' = [req EXCEPT ![r] = NoReq]
    /\ overlap' = FALSE
    /\ UNCHANGED <<mgrVars, callVars, genVars, splitVars, cache, running>>

NextApp ==
    \E r \in Reqs :
        \/ PostUpload(r)
        \/ UploadEmbed(r)
        \/ UploadAddIndex(r)
        \/ UploadExtend(r)
        \/ UploadSave(r)
        \/ PostChat(r)
        \/ ChatEmbed(r)
        \/ ChatSearchIndex(r)
        \/ ChatSearchMetadata(r)
        \/ Respond(r)

SpecApp == Init /\ [][NextApp]_vars

----------------------------------------------------------------------------
(* EmbeddingGenerator.generate_embedding called with many texts *)

\* Texts are numbered in the order a caller first uses them.
Texts == 1..(CacheLimit + ExtraTexts)

\* What openai.embeddings.create answers for a text: it depends on the text and on
\* the version of the provider's model.
ProviderEmb(t, version) == <<t, version>>

\* generate_embedding with every new text cached, whatever the size of the cache
GenerateEmbeddingUnbounded(c, text, answer) ==
    IF \E e \in c : e[1] = text
    THEN [embedding |-> (CHOOSE e \in c : e[1] = text)[2], cache |-> c, invoked |-> FALSE]
    ELSE [embedding |-> answer, cache |-> c \cup {<<text, answer>>}, invoked |-> TRUE]

\* generate_embedding(text) on the cache c when the provider's answer is `answer`:
\* what it returns, the cache after it, whether it called the provider
\*   if text in self.cache: return self.cache[text]
\*   embedding = self.generate_embeddings([text])[0]
\*   if len(self.cache) < 100: self.cache[text] = embedding
GenerateEmbedding(c, text, answer) ==
    IF \E e \in c : e[1] = text
    THEN [embedding |-> (CHOOSE e \in c : e[1] = text)[2], cache |-> c, invoked |-> FALSE]
    ELSE [embedding |-> answer,
          cache |-> IF Cardinality(c) < CacheLimit THEN c \cup {<<text, answer>>} ELSE c,
          invoked |-> TRUE]

\* The texts a caller passes next: the first and the latest text cached, the next
\* new text, and any text that is not cached once the cache is full.
Asked(t) ==
    LET n == Cardinality(cache)
    IN t \in {1, n, n + 1} \/ (n >= CacheLimit /\ t > n)

\* generate_embedding(t); the provider answers, or raises for an uncached text
GenerateEmbeddingWith(t) ==
    /\ Asked(t)
    /\ \E ok \in BOOLEAN :
          LET g == GenerateEmbedding(cache, t, ProviderEmb(t, drift))
          IN IF ok \/ ~g.invoked
             THEN /\ cache' = g.cache
                  /\ served' = [text |-> t, embedding |-> g.embedding,
                                invoked |-> g.invoked, err |-> Ok]
             ELSE /\ cache' = cache
                  /\ served' = [text |-> t, embedding |-> <<>>,
                                invoked |-> TRUE, err |-> EmbeddingFailed]
    /\ UNCHANGED <<mgrVars, callVars, splitVars, pc, req, running, overlap, drift>>

GenerateEmbeddingCall == \E t \in Texts : GenerateEmbeddingWith(t)

\* the provider moves to another version of its model
ProviderChanges ==
    /\ drift = 0
    /\ drift' = 1
    /\ UNCHANGED <<mgrVars, callVars, splitVars, cache, pc, req, running, overlap, served>>

NextCache ==
    \/ GenerateEmbeddingCall
    \/ ProviderChanges

SpecCache == Init /\ [][NextCache]_vars

----------------------------------------------------------------------------
(* DocumentSplitter: the constructor and _split_text *)

\* Texts are sequences of characters; the space is the character strip() removes.
Chars == {"a", " "}
Documents == SeqsUpTo(Chars, MaxText)

\* What a caller passes for chunk_size and for chunk_overlap; 0 also stands for an
\* argument left out (None).  The constructor checks neither.
ChunkSizes == 0..MaxSize
ChunkOverlaps == (-1)..MaxSize

\* The loop of a call that returns runs at most once per character; no call is
\* followed further than this.
MaxIterations == MaxText + 1

\* x or default: the default for None and for 0
OrDefault(x, default) == IF x = 0 THEN default ELSE x

\* a slice bound of Python: negative counts from the end, both ends clamped
SliceBound(i, n) == IF i < 0 THEN (IF i + n < 0 THEN 0 ELSE i + n)
                    ELSE (IF i > n THEN n ELSE i)

\* text[a:b]
Slice(text, a, b) ==
    LET lo == SliceBound(a, Len(text))
        hi == SliceBound(b, Len(text))
    IN IF lo >= hi THEN <<>> ELSE SubSeq(text, lo + 1, hi)

\* str.strip()
RECURSIVE Strip(_)
Strip(t) ==
    IF Len(t) = 0 THEN t
    ELSE IF Head(t) = " " THEN Strip(Tail(t))
    ELSE IF t[Len(t)] = " " THEN Strip(SubSeq(t, 1, Len(t) - 1))
    ELSE t

\* DocumentSplitter(chunk_size, chunk_overlap)
Construct ==
    /\ ~splitter.made
    /\ \E size \in ChunkSizes, lap \in ChunkOverlaps :
          splitter' = [made |-> TRUE,
                       chunk_size |-> OrDefault(size, CHUNK_SIZE),
                       chunk_overlap |-> OrDefault(lap, CHUNK_OVERLAP)]
    /\ UNCHANGED <<mgrVars, callVars, genVars, cache, pc, req, running, overlap, split>>

\* _split_text(text, source) is called: chunks = [], start = 0
SplitText ==
    /\ splitter.made
    /\ split.pc \in {"idle", "returned"}
    /\ \E text \in Documents :
          split' = [pc |-> "loop", text |-> text, start |-> 0, chunks |-> <<>>]
    /\ UNCHANGED <<mgrVars, callVars, genVars, cache, pc, req, running, overlap, splitter>>

\* one pass of the body of while start < len(text)
Iterate ==
    /\ split.pc = "loop"
    /\ split.start < Len(split.text)
    /\ Len(split.chunks) < MaxIterations
    /\ LET end == split.start + splitter.chunk_size
           chunk == Slice(split.text, split.start, end)
       IN split' = [split EXCEPT
                       !.chunks = Append(@, [content |-> Strip(chunk),
                                             source |-> "source",
                                             start_char |-> split.start,
                                             end_char |-> end]),
                       !.start = @ + splitter.chunk_size - splitter.chunk_overlap]
    /\ UNCHANGED <<mgrVars, callVars, genVars, cache, pc, req, running, overlap, splitter>>

\* the loop condition fails: return chunks
Return ==
    /\ split.pc = "loop"
    /\ split.start >= Len(split.text)
    /\ split' = [split EXCEPT !.pc = "returned"]
    /\ UNCHANGED <<mgrVars, callVars, genVars, cache, pc, req, running, overlap, splitter>>

NextSplit ==
    \/ Construct
    \/ SplitText
    \/ Iterate
    \/ Return

SpecSplit == Init /\ [][NextSplit]_vars

----------------------------------------------------------------------------
(* Claims about one FAISSManager called by one client (Spec) *)

\* the vector at a position is the normalized embedding that was passed for the
\* chunk of a metadata record
SameChunk(v, m) == v \in {NormalizeL2(Emb(m.source)), NormalizeL2(Short)}

\* C1: after any sequence of completed add_documents, save_index, load_index and
\* reset_index calls, the index holds as many vectors as there are metadata records,
\* and position i of both is the same chunk.
C1_CountsAndPositionsAgree ==
    /\ Len(index.vecs) = Len(metadata)
    /\ \A i \in 1..Len(metadata) : SameChunk(index.vecs[i], metadata[i])

\* C2: an add_documents call that passes lists of different lengths fails, and the
\* vector count and the metadata count are after it what they were before it.
\* (Any failure is accepted here as the ArityMismatch of the claim.)
C2_ArityMismatchRejected ==
    [][\A b \in ArityMismatched :
          AddDocumentsWith(b) =>
              /\ last'.err # Ok
              /\ Len(index'.vecs) = Len(index.vecs)
              /\ Len(metadata') = Len(metadata)]_vars

\* C3: a search on an index that holds no vectors fails; it never returns a result,
\* not an empty one either.  (Any failure is accepted here as the
\* IndexNotInitialized of the claim.)
C3_EmptySearchNotInitialized ==
    (last.op = "search" /\ Len(index.vecs) = 0) => last.err # Ok

\* C4: an add_documents call (create_index, when it is the first) that fails on a
\* non-empty batch fails for a dimension: a row disagrees with the index or with
\* another row.  The index and the metadata are after it what they were before it.
C4_DimensionFailureKeepsState ==
    [][\A b \in Batches :
          (Len(b.embeddings) > 0 /\ AddDocumentsWith(b) /\ last'.err # Ok) =>
              (index' = index /\ metadata' = metadata)]_vars

\* C5: load_index with both artifacts present but of different counts fails.
\* (Any failure is accepted here as the CorruptIndex of the claim.)
C5_MismatchedArtifactsRejected ==
    (/\ last.op = "load_index"
     /\ indexFile.present /\ metadataFile.present
     /\ indexFile.ntotal # Len(metadataFile.bytes))
        => last.err # Ok

\* C9: after save_index, reset_index, load_index in that order, all succeeding, every
\* search returns what the same search returned on the state save_index was called in:
\* same outcome, same entries, same order, same scores.
C9_RoundTripSearch ==
    cycle = 3 =>
        \A q \in Queries, k \in 0..MaxK :
            SearchResult(index, metadata, q, k)
                = SearchResult(beforeSave.index, beforeSave.metadata, q, k)

\* the cycle has run on an index with two vectors that rank differently for two
\* queries, and a search returns both
C9_Witness ==
    /\ cycle = 3
    /\ last.op = "load_index" /\ last.err = Ok
    /\ Len(beforeSave.index.vecs) = 2
    /\ \E q \in Queries :
          LET r == SearchResult(index, metadata, q, 2)
          IN /\ r.err = Ok
             /\ Len(r.results) = 2
             /\ r.results[1].score # r.results[2].score

\* C10: load_index with an artifact absent completes without an error and leaves the
\* index uninitialized, so that a search right after it fails with "FAISS index is not
\* initialized".  (Stated for the in-memory states whose two lists have equal length.)
C10_LoadAbsentLeavesUninitialized ==
    (/\ last.op = "load_index"
     /\ ~indexFile.present \/ ~metadataFile.present
     /\ Len(index.vecs) = Len(metadata)) =>
        /\ last.err = Ok
        /\ ~index.some
        /\ \A q \in Queries, k \in 0..MaxK :
              SearchResult(index, metadata, q, k).err = NotInitialized

\* C11: an add_documents(v, m) call that succeeds on a populated index keeps every
\* vector and every metadata record at its position and appends: the vector count
\* grows by len(v), the metadata count by len(m), and the new tail is v
\* (normalized) and m.
C11_AddIsAdditive ==
    [][(/\ index.some /\ Len(index.vecs) > 0
        /\ last'.op = "add_documents"
        /\ last'.err = Ok) =>
           /\ Len(index'.vecs) >= Len(index.vecs)
           /\ Len(metadata') >= Len(metadata)
           /\ \A i \in 1..Len(index.vecs) : index'.vecs[i] = index.vecs[i]
           /\ \A i \in 1..Len(metadata) : metadata'[i] = metadata[i]
           /\ \A b \in Batches :
                 AddDocumentsWith(b) =>
                    /\ Len(index'.vecs) = Len(index.vecs) + Len(b.embeddings)
                    /\ Len(metadata') = Len(metadata) + Len(b.metadata)
                    /\ \A i \in 1..Len(b.embeddings) :
                          index'.vecs[Len(index.vecs) + i] = NormalizeL2(b.embeddings[i])
                    /\ \A i \in 1..Len(b.metadata) :
                          metadata'[Len(metadata) + i] = b.metadata[i]]_vars

\* Two vectors of dimension 1 are in the index after a successful add_documents.  A
\* batch holds at most one row of that dimension, so the call that just returned
\* added the second to an index that held the first.
C11_Witness ==
    /\ last = Call("add_documents", Ok)
    /\ index.d = 1
    /\ Len(index.vecs) = 2
    /\ Len(metadata) = 2

\* C12, as claimed: after save_index, reset_index, save_index again and load_index,
\* the vectors and the metadata saved before the reset are not back: the index
\* holds no vector and there is no metadata record.
C12_SaveAfterResetOverwrites ==
    cycle = 5 => (Len(index.vecs) = 0 /\ Len(metadata) = 0)

\* C12, amended: a save_index that follows a reset_index fails with "FAISS index is
\* not initialized" and leaves both artifacts as the earlier save_index wrote them,
\* and a load_index after it brings back the vectors and the metadata that were in
\* memory when that earlier save_index was called.
C12_SaveAfterResetFailsLoadRestores ==
    /\ [](cycle = 5 => (index = beforeSave.index /\ metadata = beforeSave.metadata))
    /\ [][(cycle = 2 /\ last'.op = "save_index") =>
              /\ last'.err = NotInitialized
              /\ indexFile' = indexFile
              /\ metadataFile' = metadataFile]_vars

\* that sequence has run on two vectors with their two records
C12_Witness ==
    /\ cycle = 5
    /\ last = Call("load_index", Ok)
    /\ Len(index.vecs) = 2
    /\ Len(metadata) = 2
    /\ index.vecs[1] # index.vecs[2]

\* C13: save_index on an uninitialized index (self.index is None) fails with "FAISS
\* index is not initialized" and writes neither artifact: both are after the call
\* what they were before it, absent if they were absent.
C13_SaveUninitializedWritesNothing ==
    [][(~index.some /\ last'.op = "save_index") =>
          /\ last'.err = NotInitialized
          /\ indexFile' = indexFile
          /\ metadataFile' = metadataFile
          /\ index' = index /\ metadata' = metadata]_vars

\* save_index has failed so on a manager that never saved: no artifact exists
C13_Witness ==
    /\ last = Call("save_index", NotInitialized)
    /\ ~index.some
    /\ ~indexFile.present
    /\ ~metadataFile.present

\* C14: reset_index succeeds in every state; after it the index is uninitialized,
\* there is no vector and no metadata record, and both artifacts are what they were
\* before the call.
C14_ResetDiscardsMemoryOnly ==
    [][last'.op = "reset_index" =>
          /\ last'.err = Ok
          /\ index' = NoIndex
          /\ ~index'.some /\ Len(index'.vecs) = 0
          /\ metadata' = <<>>
          /\ indexFile' = indexFile
          /\ metadataFile' = metadataFile]_vars

\* reset_index has run on a manager whose artifacts hold two vectors: memory is
\* empty, the artifacts still hold them
C14_Witness ==
    /\ last = Call("reset_index", Ok)
    /\ ~index.some /\ metadata = <<>>
    /\ indexFile.present /\ indexFile.ntotal = 2
    /\ metadataFile.present /\ Len(metadataFile.bytes) = 2

\* position i comes before position j for query q: nearer, or as near and
\* inserted earlier
Before(q, i, j) ==
    \/ DistSq(q, index.vecs[i]) < DistSq(q, index.vecs[j])
    \/ DistSq(q, index.vecs[i]) = DistSq(q, index.vecs[j]) /\ i < j

\* the m positions a search for q is to return, in the order it is to return them
Nearest(q, m) ==
    CHOOSE p \in [1..m -> 1..Len(index.vecs)] :
        /\ \A i \in 1..(m - 1) : Before(q, p[i], p[i + 1])
        /\ \A j \in 1..Len(index.vecs) :
              (\A i \in 1..m : p[i] # j) => \A i \in 1..m : Before(q, p[i], j)

\* C15: on an index that holds n > 0 vectors, search(q, k) for a query of the
\* index's dimension returns min(k, n) entries: the entries of the positions nearest
\* to q, nearest first and equally near ones in insertion order, each with the
\* score 1/(1+d) of its distance, which is in (0, 1] and never increases along the
\* list.
C15_SearchReturnsNearestRanked ==
    \A q \in Queries, k \in 1..MaxK :
        (index.some /\ Len(index.vecs) > 0 /\ Len(q) = index.d) =>
            LET n == Len(index.vecs)
                m == IF k <= n THEN k ELSE n
                r == SearchResult(index, metadata, q, k)
                p == Nearest(NormalizeL2(q), m)
            IN /\ r.err = Ok
               /\ Len(r.results) = m
               /\ \A i \in 1..m :
                     /\ p[i] <= Len(metadata)
                     /\ r.results[i].metadata = metadata[p[i]]
                     /\ r.results[i].score = Score(DistSq(NormalizeL2(q), index.vecs[p[i]]))
                     /\ r.results[i].score.num > 0
                     /\ r.results[i].score.num <= r.results[i].score.den
               /\ \A i \in 1..(m - 1) :
                     r.results[i].score.num * r.results[i + 1].score.den
                         >= r.results[i + 1].score.num * r.results[i].score.den

\* C17: for every stored vector that no other stored vector equals, search with
\* that vector as the query and k = 1 returns one entry: the metadata record of the
\* vector's position, with score 1.
C17_ExactMatchScoresOne ==
    \A i \in 1..Len(index.vecs) :
        (\A j \in 1..Len(index.vecs) : j # i => index.vecs[j] # index.vecs[i]) =>
            LET r == SearchResult(index, metadata, index.vecs[i], 1)
            IN /\ r.err = Ok
               /\ Len(r.results) = 1
               /\ i <= Len(metadata)
               /\ r.results[1].metadata = metadata[i]
               /\ r.results[1].score.num = r.results[1].score.den

\* the labels the index reports that are not negative and have a metadata record
HasRecord(hit) == hit.idx >= 0 /\ hit.idx < Len(metadata)

\* C20: in every state, for every query of the index's dimension, search completes
\* without an error, and its entries are, in order, those of the labels the index
\* reported that have a metadata record, each carrying the record at its label; the
\* negative labels and the labels past the end of the metadata list give no entry.
\* (A call that passes no k is a call with k = TOP_K_RESULTS.)
C20_SearchSkipsLabelsWithoutRecord ==
    \A q \in Queries, k \in 1..MaxK :
        (index.some /\ Len(q) = index.d) =>
            LET r == SearchResult(index, metadata, q, k)
                kept == SelectSeq(SearchIndex(index, q, k).hits, HasRecord)
            IN /\ r.err = Ok
               /\ Len(r.results) = Len(kept)
               /\ \A i \in 1..Len(kept) :
                     /\ r.results[i].metadata = metadata[kept[i].idx + 1]
                     /\ r.results[i].score = Score(kept[i].dist)

\* the index holds two vectors and one metadata record, and a search for two
\* entries has returned
C20_Witness ==
    /\ last = Call("search", Ok)
    /\ Len(index.vecs) = 2
    /\ Len(metadata) = 1
    /\ \E q \in Queries : Len(SearchResult(index, metadata, q, 2).results) = 1

----------------------------------------------------------------------------
(* Claims about load_index on a disk whose reads can fail (SpecFaults) *)

\* C19: a load_index call that fails leaves self.index and self.metadata what they
\* were before the call.  (Stated for calls made in a state whose two lists have
\* equal length and with artifacts of equal counts.)
C19_FailedLoadKeepsMemory ==
    [][(/\ Len(index.vecs) = Len(metadata)
        /\ indexFile.ntotal = Len(metadataFile.bytes)
        /\ last'.op = "load_index" /\ last'.err # Ok) =>
          (index' = index /\ metadata' = metadata)]_vars

----------------------------------------------------------------------------
(* Claims about the handlers of app.py (SpecApp) *)

\* score >= SIMILARITY_THRESHOLD
ClearsThreshold(score) == score.num * ThresholdDen >= ThresholdNum * score.den

\* C6: the results retrieve_documents returns all have a score of at least
\* Config.SIMILARITY_THRESHOLD.
C6_RetrieveFiltersByThreshold ==
    \A r \in Reqs :
        (pc[r] = "done" /\ req[r].kind = "chat_message" /\ req[r].err = Ok) =>
            \A i \in 1..Len(req[r].results) : ClearsThreshold(req[r].results[i].score)

\* the handler of request r is inside add_documents / inside search
InAdd(r) == pc[r] \in {"add_index", "extend"}
InSearch(r) == pc[r] \in {"search_index", "search_metadata"}

C16_ProviderFailurePropagates ==
    /\ [](\A r \in Reqs :
            (req[r].kind = "chat_message" /\ req[r].provider = "failed") =>
                /\ pc[r] = "done"
                /\ req[r].err = EmbeddingFailed
                /\ req[r].calls = 1
                /\ req[r].labels = <<>>
                /\ req[r].results = <<>>)
    /\ [][\A r \in Reqs :
            (/\ req'[r].kind = "chat_message"
             /\ req[r].provider # "failed"
             /\ req'[r].provider = "failed") => cache' = cache]_vars

\* the provider has failed for a chat message while the index is populated and the
\* cache holds the embedding of another text
C16_Witness ==
    \E r \in Reqs :
        /\ req[r].kind = "chat_message"
        /\ req[r].provider = "failed"
        /\ pc[r] = "done"
        /\ Len(index.vecs) > 0
        /\ cache # {}
        /\ \A e \in cache : e[1] # req[r].text

----------------------------------------------------------------------------
(* Claims about the embedding cache (SpecCache) *)

\* C18: the cache never holds more than 100 entries, nor two entries for one text;
\* an entry that is in the cache stays in it with the same vector; and a
\* generate_embedding call for a text that is cached returns the cached vector
\* and does not call the provider.
C18_CacheBoundedAndStable ==
    /\ [](/\ Cardinality(cache) <= CacheLimit
          /\ \A e1, e2 \in cache : e1[1] = e2[1] => e1 = e2)
    /\ [][\A e \in cache : e \in cache']_vars
    /\ [][(served' # served /\ \E e \in cache : e[1] = served'.text) =>
                /\ <<served'.text, served'.embedding>> \in cache
                /\ ~served'.invoked
                /\ served'.err = Ok]_vars

\* the cache is full, the provider has changed since the first text was cached,
\* and a call for a text beyond the limit has been answered by the provider and
\* not cached
C18_Witness ==
    /\ Cardinality(cache) = CacheLimit
    /\ <<1, ProviderEmb(1, 0)>> \in cache
    /\ drift = 1
    /\ served.text > CacheLimit
    /\ served.invoked /\ served.err = Ok
    /\ \A e \in cache : e[1] # served.text

----------------------------------------------------------------------------
(* Claims about DocumentSplitter (SpecSplit) *)

\* C21: _split_text terminates for every text and every chunk_size and
\* chunk_overlap the constructor accepts, and the chunks it returns cover every
\* character position of the text.  Termination is stated by the loop's measure:
\* the step is the same in every pass, so the loop ends exactly when every pass
\* moves start forward.
C21_SplitTerminatesAndCovers ==
    /\ [][(split.pc = "loop" /\ split'.pc = "loop" /\ split' # split) =>
              split'.start > split.start]_vars
    /\ [](split.pc = "returned" =>
            \A p \in 0..(Len(split.text) - 1) :
                \E i \in 1..Len(split.chunks) :
                    /\ split.chunks[i].start_char <= p
                    /\ p < split.chunks[i].end_char)

====
